---- MODULE Spec2Model ----
(***************************************************************************)
(* The retrieval-augmented question answering pipeline of app/rag/rag.py:  *)
(* ingest (get_pdf_text -> get_text_chunks -> get_vector_store) and query  *)
(* (process_question, process_question_simple) over the index persisted    *)
(* in the directory faiss_index next to the script.                        *)
(*                                                                         *)
(* Strings are sequences of one-character strings.  The third-party        *)
(* engines (PyPDF2, the text splitter, the embedding model, FAISS, the     *)
(* Groq completion service) are the environment: what they return is       *)
(* drawn from small sets and each of their calls may raise.                *)
(***************************************************************************)
EXTENDS Integers, Sequences, FiniteSets, TLC

VARIABLES store, apiKey, ing, last, lastOK, procs, chk, js, notes, upload, video

vars == <<store, apiKey, ing, last, lastOK, procs, chk, js, notes, upload, video>>

\* the state of the checks of pure functions and of the calls into the other
\* packages (notegen, video2pdf), which no call of rag.py touches
pure == <<chk, js, notes, upload, video>>

-----------------------------------------------------------------------------
(* Bounds of the model.                                                    *)

\* documents in one batch handed to get_pdf_text
MaxDocs == 2

\* paragraphs in a text handed to get_text_chunks on its own
MaxPieces == 3

\* characters in a string handed to safe_json_parse
MaxJsonLen == 4

-----------------------------------------------------------------------------
(* Strings.                                                                *)

Rep(c, n) == [i \in 1..n |-> c]

IsSpace(c) == c \in {" ", "\n", "\t"}

\* str.strip(): leading and trailing whitespace removed
Strip(s) ==
  LET keep == {i \in 1..Len(s) : ~IsSpace(s[i])}
  IN IF keep = {} THEN <<>>
     ELSE LET lo == CHOOSE i \in keep : \A j \in 1..(i - 1) : IsSpace(s[j])
              hi == CHOOSE i \in keep : \A j \in (i + 1)..Len(s) : IsSpace(s[j])
          IN SubSeq(s, lo, hi)

\* the blank test as it would be without strip()
Blank_unstripped(s) == s = <<>>

\* "not s.strip()"
Blank(s) == Strip(s) = <<>>

RECURSIVE Join(_, _)
\* sep.join(parts)
Join(parts, sep) ==
  IF parts = <<>> THEN <<>>
  ELSE IF Len(parts) = 1 THEN parts[1]
  ELSE parts[1] \o sep \o Join(Tail(parts), sep)

Count(s, c) == Cardinality({i \in 1..Len(s) : s[i] = c})

-----------------------------------------------------------------------------
(* Results of a call: a returned value or a raised exception.  Every       *)
(* function of rag.py re-raises what it catches as a plain Exception whose *)
(* message is a prefix followed by the message of the cause.               *)

NoAnswer == [src |-> "none", text |-> "", prompt |-> <<>>, model |-> ""]

Ok(v) == [ok |-> TRUE, exc |-> "", wrap |-> "", cause |-> "", val |-> v]

Raise(prefix, msg) ==
  [ok |-> FALSE, exc |-> "Exception", wrap |-> prefix, cause |-> msg, val |-> NoAnswer]

\* one attempted call of a third-party engine
Step(name, arg) == <<name, arg>>

-----------------------------------------------------------------------------
(* The storage location: the directory faiss_index, in which save_local    *)
(* keeps two files, index.faiss (the vectors) and index.pkl (the texts).   *)
(* A file is <<>> when absent and <<content>> when present; the content of *)
(* either file is the chunk list it was written from.                      *)

NoDir == [dir |-> FALSE, faiss |-> <<>>, pkl |-> <<>>]

Full(index) == [dir |-> TRUE, faiss |-> <<index>>, pkl |-> <<index>>]

-----------------------------------------------------------------------------
(* Documents of a batch.  A path may not exist, PdfReader may raise on the *)
(* file, or the file is read and page.extract_text() gives one text per    *)
(* page: nothing, whitespace only, or content.                             *)

Missing == [kind |-> "missing", pages |-> <<>>]

Corrupt == [kind |-> "corrupt", pages |-> <<>>]

Pdf(pages) == [kind |-> "pdf", pages |-> pages]

DocPool ==
  {Missing, Corrupt}
  \cup {Pdf(p) : p \in {<< >>, << <<>> >>, << <<" ">> >>, << <<"a">> >>,
                        << <<>>, <<"a">> >>, << <<"b">>, <<" ">> >>}}

\* the inner loop as it would be if every page added a line, empty or not
PagesText_every_page(pages) ==
  LET upto[i \in 0..Len(pages)] ==
        IF i = 0 THEN <<>> ELSE upto[i - 1] \o pages[i] \o <<"\n">>
  IN upto[Len(pages)]

RECURSIVE PagesText(_)
\* the inner loop of get_pdf_text: a page with text adds it and a newline
PagesText(pages) ==
  IF pages = <<>> THEN <<>>
  ELSE (IF Head(pages) # <<>> THEN Head(pages) \o <<"\n">> ELSE <<>>)
       \o PagesText(Tail(pages))

-----------------------------------------------------------------------------
(* The chunker.  RecursiveCharacterTextSplitter.split_text is third-party: *)
(* the chunks it returns are drawn from a few that differ in what the code *)
(* looks at, the length of the chunk once stripped.                        *)

MinChunkLen == 50

A50 == Rep("a", 50)

A51 == Rep("a", 51)

PadB51 == <<" ">> \o Rep("b", 51) \o <<"\n">>

\* what split_text may return for a text
SplitOutputs == {<<A50>>, <<A51>>, <<PadB51, A50>>, <<A51, PadB51>>}

\* the post-filter as it would be with the threshold doubled
KeepChunk_stricter(chunk) == Len(Strip(chunk)) > 2 * MinChunkLen

\* the post-filter of get_text_chunks
KeepChunk(chunk) == Len(Strip(chunk)) > MinChunkLen

\* get_text_chunks as it would be without its check of the input
get_text_chunks_unchecked(text, raw) ==
  LET chunks == SelectSeq(raw, KeepChunk)
  IN IF chunks = <<>>
     THEN [res |-> Raise("Error splitting text", "No valid text chunks created"),
           chunks |-> <<>>, trace |-> <<Step("split", 0)>>]
     ELSE [res |-> Ok(NoAnswer), chunks |-> chunks, trace |-> <<Step("split", 0)>>]

\* get_text_chunks(text), raw being what split_text returns for text:
\* the result, the chunks returned and the engine calls attempted
get_text_chunks(text, raw) ==
  IF Blank(text)
  THEN [res |-> Raise("Error splitting text", "Input text is empty"),
        chunks |-> <<>>, trace |-> <<>>]
  ELSE LET chunks == SelectSeq(raw, KeepChunk)
       IN IF chunks = <<>>
          THEN [res |-> Raise("Error splitting text", "No valid text chunks created"),
                chunks |-> <<>>, trace |-> <<Step("split", 0)>>]
          ELSE [res |-> Ok(NoAnswer), chunks |-> chunks,
                trace |-> <<Step("split", 0)>>]

-----------------------------------------------------------------------------
(* The vector store.  A fault set F names the engine calls that raise when *)
(* they are attempted.                                                     *)

IngestFaults ==
  {{}} \cup {{f} : f \in {"embedder", "embed", "build", "mkdir", "write_faiss", "write_pkl"}}

\* save_local as it would be if it added to the index already there
save_local_merging(st, index, F) ==
  LET old == IF st.pkl = <<>> THEN <<>> ELSE st.pkl[1]
  IN IF "mkdir" \in F THEN [ok |-> FALSE, store |-> st]
     ELSE IF "write_faiss" \in F
     THEN [ok |-> FALSE, store |-> [st EXCEPT !.dir = TRUE]]
     ELSE IF "write_pkl" \in F
     THEN [ok |-> FALSE, store |-> [st EXCEPT !.dir = TRUE, !.faiss = <<old \o index>>]]
     ELSE [ok |-> TRUE, store |-> Full(old \o index)]

\* FAISS.save_local(index_path): creates the directory, writes index.faiss,
\* then index.pkl; a write that raises leaves the earlier ones done
save_local(st, index, F) ==
  IF "mkdir" \in F THEN [ok |-> FALSE, store |-> st]
  ELSE IF "write_faiss" \in F
  THEN [ok |-> FALSE, store |-> [st EXCEPT !.dir = TRUE]]
  ELSE IF "write_pkl" \in F
  THEN [ok |-> FALSE, store |-> [st EXCEPT !.dir = TRUE, !.faiss = <<index>>]]
  ELSE [ok |-> TRUE, store |-> Full(index)]

\* get_vector_store as it would be if it cleared the storage location
\* before building the new index
get_vector_store_clearing(text_chunks, st, F) ==
  LET wrap == "Error creating vector store"
      t1 == <<Step("embedder", 0)>>
      t2 == Append(t1, Step("embed", 0))
      t3 == Append(t2, Step("build", 0))
      t4 == Append(t3, Step("persist", 0))
      saved == [ok |-> F = {}, store |-> IF F = {} THEN Full(text_chunks) ELSE NoDir]
  IN IF text_chunks = <<>>
     THEN [res |-> Raise(wrap, "No text chunks provided"), trace |-> <<>>, store |-> st]
     ELSE IF "embedder" \in F
     THEN [res |-> Raise(wrap, "embedding model failed to load"), trace |-> t1, store |-> NoDir]
     ELSE IF "embed" \in F
     THEN [res |-> Raise(wrap, "embedding failed"), trace |-> t2, store |-> NoDir]
     ELSE IF "build" \in F
     THEN [res |-> Raise(wrap, "index build failed"), trace |-> t3, store |-> NoDir]
     ELSE IF ~saved.ok
     THEN [res |-> Raise(wrap, "index write failed"), trace |-> t4, store |-> saved.store]
     ELSE [res |-> Ok(NoAnswer), trace |-> t4, store |-> saved.store]

\* get_vector_store as it would be if it tried save_local again after a
\* failure
get_vector_store_retrying(text_chunks, st, F) ==
  LET wrap == "Error creating vector store"
      t1 == <<Step("embedder", 0)>>
      t2 == Append(t1, Step("embed", 0))
      t3 == Append(t2, Step("build", 0))
      t4 == Append(t3, Step("persist", 0))
      t5 == Append(t4, Step("persist", 0))
      saved == IF F = {} THEN [ok |-> TRUE, store |-> Full(text_chunks)]
               ELSE [ok |-> FALSE, store |-> st]
  IN IF text_chunks = <<>>
     THEN [res |-> Raise(wrap, "No text chunks provided"), trace |-> <<>>, store |-> st]
     ELSE IF "embedder" \in F
     THEN [res |-> Raise(wrap, "embedding model failed to load"), trace |-> t1, store |-> st]
     ELSE IF "embed" \in F
     THEN [res |-> Raise(wrap, "embedding failed"), trace |-> t2, store |-> st]
     ELSE IF "build" \in F
     THEN [res |-> Raise(wrap, "index build failed"), trace |-> t3, store |-> st]
     ELSE IF ~saved.ok
     THEN [res |-> Raise(wrap, "index write failed"), trace |-> t5, store |-> saved.store]
     ELSE [res |-> Ok(NoAnswer), trace |-> t4, store |-> saved.store]

\* get_vector_store(text_chunks) against the storage state st
get_vector_store(text_chunks, st, F) ==
  LET wrap == "Error creating vector store"
      t1 == <<Step("embedder", 0)>>
      t2 == Append(t1, Step("embed", 0))
      t3 == Append(t2, Step("build", 0))
      t4 == Append(t3, Step("persist", 0))
      saved == save_local(st, text_chunks, F)
  IN IF text_chunks = <<>>
     THEN [res |-> Raise(wrap, "No text chunks provided"), trace |-> <<>>, store |-> st]
     ELSE IF "embedder" \in F
     THEN [res |-> Raise(wrap, "embedding model failed to load"), trace |-> t1, store |-> st]
     ELSE IF "embed" \in F
     THEN [res |-> Raise(wrap, "embedding failed"), trace |-> t2, store |-> st]
     ELSE IF "build" \in F
     THEN [res |-> Raise(wrap, "index build failed"), trace |-> t3, store |-> st]
     ELSE IF ~saved.ok
     THEN [res |-> Raise(wrap, "index write failed"), trace |-> t4, store |-> saved.store]
     ELSE [res |-> Ok(NoAnswer), trace |-> t4, store |-> saved.store]

-----------------------------------------------------------------------------
(* Query.                                                                  *)

AVAILABLE_MODELS ==
  {"llama-3.3-70b-versatile", "llama-3.1-8b-instant", "gemma2-9b-it",
   "deepseek-r1-distill-llama-70b", "qwen/qwen3-32b", "moonshotai/kimi-k2-instruct"}

\* model identifiers a caller passes: the default one and one not in the list
Models == {"llama-3.3-70b-versatile", "mixtral-8x7b-32768"}

\* questions a caller passes: empty, whitespace only, and two with content
Questions == {<<>>, <<" ", "\n">>, <<"a">>, <<"b">>}

QueryFaults == {{}} \cup {{f} : f \in {"embedder", "load", "search", "complete"}}

\* retriever search_kwargs {"k": 4}; similarity_search(user_question, k=4)
K == 4

\* the embedding model: a fixed function of the text
Embed(t) == <<Count(t, "a"), Count(t, "b")>>

\* squared L2 distance, the metric of the flat FAISS index
Dist(u, v) == (u[1] - v[1]) * (u[1] - v[1]) + (u[2] - v[2]) * (u[2] - v[2])

\* the existence check as it would be if it always passed
Exists_always(st) == TRUE

\* os.path.exists(index_path)
Exists(st) == st.dir

\* the key test as it would be if a missing key were let through
HasKey_always(key) == TRUE

\* "if not groq_api_key" is not taken
HasKey(key) == key

\* "if model_name not in AVAILABLE_MODELS": the warning is printed
Warns(model_name) == model_name \notin AVAILABLE_MODELS

\* FAISS.load_local(index_path, embeddings, ...): reads index.faiss, then
\* index.pkl; the handle pairs the vectors of one with the texts of the other
load_local(st, F) ==
  IF "load" \in F \/ st.faiss = <<>> \/ st.pkl = <<>>
  THEN [ok |-> FALSE, vectors |-> <<>>, texts |-> <<>>]
  ELSE [ok |-> TRUE,
        vectors |-> [i \in 1..Len(st.faiss[1]) |-> Embed(st.faiss[1][i])],
        texts |-> st.pkl[1]]

\* the positions of the k nearest vectors, nearest first (ties: lower position)
Nearest(vectors, qv, k) ==
  LET n == Len(vectors)
      Before(i, j) == \/ Dist(vectors[i], qv) < Dist(vectors[j], qv)
                      \/ /\ Dist(vectors[i], qv) = Dist(vectors[j], qv)
                         /\ i < j
      Rank(i) == Cardinality({j \in 1..n : Before(j, i)})
      m == IF n < k THEN n ELSE k
  IN [r \in 1..m |-> CHOOSE i \in 1..n : Rank(i) = r - 1]

\* similarity_search as it would be if it did not limit the hits to k
similarity_search_unbounded(handle, question, k, F) ==
  LET hits == Nearest(handle.vectors, Embed(question), Len(handle.vectors))
  IN IF "search" \in F \/ \E r \in 1..Len(hits) : hits[r] > Len(handle.texts)
     THEN [ok |-> FALSE, docs |-> <<>>]
     ELSE [ok |-> TRUE, docs |-> [r \in 1..Len(hits) |-> handle.texts[hits[r]]]]

\* vector_store.similarity_search(question, k) on a loaded handle: the
\* question is embedded, the index searched, each hit looked up in the texts
similarity_search(handle, question, k, F) ==
  LET hits == Nearest(handle.vectors, Embed(question), k)
  IN IF "search" \in F \/ \E r \in 1..Len(hits) : hits[r] > Len(handle.texts)
     THEN [ok |-> FALSE, docs |-> <<>>]
     ELSE [ok |-> TRUE, docs |-> [r \in 1..Len(hits) |-> handle.texts[hits[r]]]]

\* the template, in both entry points, up to the sentence to say when the
\* context has no answer
PromptOpening ==
  "\n        Answer the question as detailed as possible from the provided context. \n        If the answer is not in the provided context, just say \""

NotAvailable == "Answer is not available in the context"

PromptRules ==
  "\". \n        Don't provide incorrect information.\n        \n        Context: "

PromptHead == <<PromptOpening, NotAvailable, PromptRules>>

PromptMid == "\n        Question: "

PromptTail == "\n        \n        Answer:\n        "

\* the template filled with the context block and the question
Prompt(context, question) ==
  PromptHead \o context \o <<PromptMid>> \o question \o <<PromptTail>>

\* the context block as it would be with the documents one per line
Context_one_per_line(docs) == Join(docs, <<"\n">>)

\* the context block: the page_content of the documents, a blank line between
Context(docs) == Join(docs, <<"\n", "\n">>)

\* the text the completion service returns for a prompt under a model
Completion(prompt, model) ==
  [src |-> "backend", text |-> "completion", prompt |-> prompt, model |-> model]

NoDocsAnswer ==
  [src |-> "local", text |-> "No relevant documents found for your question.",
   prompt |-> <<>>, model |-> ""]

\* what a query call did: its result, the engine calls attempted, the
\* documents retrieved, whether the model warning was printed, and the
\* (prompt, model) pairs handed to the completion service
Did(res, trace, docs, warned, calls) ==
  [res |-> res, trace |-> trace, docs |-> docs, warned |-> warned, calls |-> calls]

\* process_question as it would be if it refused a model that is not listed
process_question_rejecting(user_question, model_name, st, key, F) ==
  LET wrap == "Error processing question"
      warned == Warns(model_name)
      t1 == <<Step("embedder", 0)>>
      t2 == Append(t1, Step("load", 0))
      t3 == Append(t2, Step("search", 0))
      t4 == Append(t3, Step("complete", 0))
      handle == load_local(st, F)
      found == similarity_search(handle, user_question, K, F)
      prompt == Prompt(Context(found.docs), user_question)
      call == [prompt |-> prompt, model |-> model_name]
  IN IF Blank(user_question)
     THEN Did(Raise(wrap, "Question cannot be empty"), <<>>, <<>>, FALSE, <<>>)
     ELSE IF warned
     THEN Did(Raise(wrap, "Unknown model"), <<>>, <<>>, warned, <<>>)
     ELSE IF "embedder" \in F
     THEN Did(Raise(wrap, "embedding model failed to load"), t1, <<>>, warned, <<>>)
     ELSE IF ~Exists(st)
     THEN Did(Raise(wrap, "Vector store not found"), t1, <<>>, warned, <<>>)
     ELSE IF ~handle.ok
     THEN Did(Raise(wrap, "index load failed"), t2, <<>>, warned, <<>>)
     ELSE IF ~HasKey(key)
     THEN Did(Raise(wrap, "GROQ_API_KEY not found in environment variables"),
              t2, <<>>, warned, <<>>)
     ELSE IF ~found.ok
     THEN Did(Raise(wrap, "retrieval failed"), t3, <<>>, warned, <<>>)
     ELSE IF "complete" \in F
     THEN Did(Raise(wrap, "completion failed"), t4, found.docs, warned, <<call>>)
     ELSE Did(Ok(Completion(prompt, model_name)), t4, found.docs, warned, <<call>>)

\* process_question(user_question, model_name) against storage st, with the
\* API key set or not
process_question(user_question, model_name, st, key, F) ==
  LET wrap == "Error processing question"
      warned == Warns(model_name)
      t1 == <<Step("embedder", 0)>>
      t2 == Append(t1, Step("load", 0))
      t3 == Append(t2, Step("search", 0))
      t4 == Append(t3, Step("complete", 0))
      handle == load_local(st, F)
      found == similarity_search(handle, user_question, K, F)
      prompt == Prompt(Context(found.docs), user_question)
      call == [prompt |-> prompt, model |-> model_name]
  IN IF Blank(user_question)
     THEN Did(Raise(wrap, "Question cannot be empty"), <<>>, <<>>, FALSE, <<>>)
     ELSE IF "embedder" \in F
     THEN Did(Raise(wrap, "embedding model failed to load"), t1, <<>>, warned, <<>>)
     ELSE IF ~Exists(st)
     THEN Did(Raise(wrap, "Vector store not found"), t1, <<>>, warned, <<>>)
     ELSE IF ~handle.ok
     THEN Did(Raise(wrap, "index load failed"), t2, <<>>, warned, <<>>)
     ELSE IF ~HasKey(key)
     THEN Did(Raise(wrap, "GROQ_API_KEY not found in environment variables"),
              t2, <<>>, warned, <<>>)
     ELSE IF ~found.ok
     THEN Did(Raise(wrap, "retrieval failed"), t3, <<>>, warned, <<>>)
     ELSE IF "complete" \in F
     THEN Did(Raise(wrap, "completion failed"), t4, found.docs, warned, <<call>>)
     ELSE Did(Ok(Completion(prompt, model_name)), t4, found.docs, warned, <<call>>)

\* process_question_simple(user_question, model_name)
process_question_simple(user_question, model_name, st, key, F) ==
  LET wrap == "Error processing question"
      t1 == <<Step("embedder", 0)>>
      t2 == Append(t1, Step("load", 0))
      t3 == Append(t2, Step("search", 0))
      t4 == Append(t3, Step("complete", 0))
      handle == load_local(st, F)
      found == similarity_search(handle, user_question, K, F)
      prompt == Prompt(Context(found.docs), user_question)
      call == [prompt |-> prompt, model |-> model_name]
  IN IF Blank(user_question)
     THEN Did(Raise(wrap, "Question cannot be empty"), <<>>, <<>>, FALSE, <<>>)
     ELSE IF "embedder" \in F
     THEN Did(Raise(wrap, "embedding model failed to load"), t1, <<>>, FALSE, <<>>)
     ELSE IF ~Exists(st)
     THEN Did(Raise(wrap, "Vector store not found"), t1, <<>>, FALSE, <<>>)
     ELSE IF ~handle.ok
     THEN Did(Raise(wrap, "index load failed"), t2, <<>>, FALSE, <<>>)
     ELSE IF ~found.ok
     THEN Did(Raise(wrap, "retrieval failed"), t3, <<>>, FALSE, <<>>)
     ELSE IF found.docs = <<>>
     THEN Did(Ok(NoDocsAnswer), t3, <<>>, FALSE, <<>>)
     ELSE IF ~HasKey(key)
     THEN Did(Raise(wrap, "GROQ_API_KEY not found in environment variables"),
              t3, found.docs, FALSE, <<>>)
     ELSE IF "complete" \in F
     THEN Did(Raise(wrap, "completion failed"), t4, found.docs, FALSE, <<call>>)
     ELSE Did(Ok(Completion(prompt, model_name)), t4, found.docs, FALSE, <<call>>)

-----------------------------------------------------------------------------
(* State.                                                                  *)
(*   store   the storage location                                          *)
(*   apiKey  whether GROQ_API_KEY is set in the environment                *)
(*   ing     the ingest in progress: where its caller stands between       *)
(*           get_pdf_text, get_text_chunks and get_vector_store            *)
(*   last    the call that completed last, as its caller saw it: for an    *)
(*           ingest, the function it ended in, the documents get_pdf_text  *)
(*           had gone through and the text it had built if it ended there, *)
(*           the chunks handed to                                          *)
(*           get_vector_store and the storage as it was before the call;   *)
(*           for a query, what Did records                                 *)
(*   lastOK  <<chunks>> of the ingest that succeeded last, <<>> if none    *)

IdleIng ==
  [pc |-> "idle", n |-> 0, text |-> <<>>, chunks |-> <<>>, trace |-> <<>>, batch |-> <<>>]

NoCall ==
  [op |-> "none", q |-> <<>>, model |-> "", faults |-> {}, res |-> Ok(NoAnswer),
   trace |-> <<>>, docs |-> <<>>, warned |-> FALSE, calls |-> <<>>,
   pre |-> NoDir, chunks |-> <<>>, stage |-> "", text |-> <<>>, batch |-> <<>>]

\* an ingest as its caller saw it end
IngestCall(stage, res, trace, pre, chunks) ==
  [NoCall EXCEPT !.op = "ingest", !.stage = stage, !.res = res, !.trace = trace,
                 !.pre = pre, !.chunks = chunks,
                 !.text = IF stage = "get_pdf_text" THEN ing.text ELSE <<>>,
                 !.batch = IF stage = "get_pdf_text" THEN ing.batch ELSE <<>>]

\* the callers that may be inside rag.py at the same time
Procs == {"p1", "p2"}

\* a caller that is in no call
IdleProc ==
  [kind |-> "none", pc |-> "idle", op |-> "", q |-> <<>>, model |-> "", faults |-> {},
   chunks |-> <<>>, pre |-> NoDir, clean |-> TRUE, faiss |-> <<>>,
   out |-> Did(Ok(NoAnswer), <<>>, <<>>, FALSE, <<>>)]

\* no pure function has been applied
NoChk == [pc |-> "none"]

NoJs == [pc |-> "none"]

\* nobody is inside process_content, the /upload handler, the video2pdf routes
NoNotes == [pc |-> "none"]

NoUpload == [pc |-> "none"]

NoVideo == [pc |-> "none"]

\* what may lie at the storage location when the program starts: nothing,
\* or an index put there earlier (by an earlier run or by the operator)
\* five chunks, none of them equal, at five distances from either question
FiveChunks ==
  <<Rep("b", 70), A51, Rep("a", 30) \o Rep("b", 30), Rep("a", 60), PadB51>>

PriorIndexes == {<<>>, <<A51>>, FiveChunks}

Init ==
  /\ store \in {NoDir} \cup {Full(x) : x \in PriorIndexes}
  /\ apiKey \in BOOLEAN
  /\ ing = IdleIng
  /\ last = NoCall
  /\ lastOK = <<>>
  /\ procs = [p \in Procs |-> IdleProc]
  /\ chk = NoChk
  /\ js = NoJs
  /\ notes = NoNotes
  /\ upload = NoUpload
  /\ video = NoVideo

-----------------------------------------------------------------------------
(* Ingest: raw_text = get_pdf_text(pdf_paths);                             *)
(*         text_chunks = get_text_chunks(raw_text);                        *)
(*         get_vector_store(text_chunks)                                   *)

IngestFails(stage, res, trace, chunks, st) ==
  /\ ing' = IdleIng
  /\ last' = IngestCall(stage, res, trace, store, chunks)
  /\ store' = st
  /\ UNCHANGED <<apiKey, lastOK, procs, pure>>

\* get_pdf_text raises on document d
IngestFailsAt(d, res, trace) ==
  /\ ing' = IdleIng
  /\ last' = [IngestCall("get_pdf_text", res, trace, store, <<>>)
                EXCEPT !.batch = Append(ing.batch, d)]
  /\ UNCHANGED <<store, apiKey, lastOK, procs, pure>>

\* get_pdf_text is entered: text = ""
GetPdfTextBegin ==
  /\ ing.pc = "idle"
  /\ ing' = [IdleIng EXCEPT !.pc = "extract"]
  /\ last' = NoCall
  /\ UNCHANGED <<store, apiKey, lastOK, procs, pure>>

\* one iteration of "for pdf_path in pdf_paths"
GetPdfTextDoc(d) ==
  /\ ing.pc = "extract"
  /\ ing.n < MaxDocs
  /\ LET t == Append(ing.trace, Step("extract", ing.n + 1))
     IN CASE d.kind = "missing" ->
               IngestFailsAt(d, Raise("Error reading PDF", "PDF file not found"), ing.trace)
          [] d.kind = "corrupt" ->
               IngestFailsAt(d, Raise("Error reading PDF", "PdfReader failed"), t)
          [] OTHER ->
               /\ ing' = [ing EXCEPT !.n = @ + 1, !.trace = t, !.batch = Append(@, d),
                                     !.text = @ \o PagesText(d.pages)]
               /\ UNCHANGED <<store, apiKey, last, lastOK, procs, pure>>

\* the end of get_pdf_text as it would be without its blank check
GetPdfTextEnd_unchecked ==
  /\ ing.pc = "extract"
  /\ ing' = [ing EXCEPT !.pc = "text", !.batch = <<>>]
  /\ UNCHANGED <<store, apiKey, last, lastOK, procs, pure>>

\* the loop is over: the blank check, then the text is returned
GetPdfTextEnd ==
  /\ ing.pc = "extract"
  /\ IF Blank(ing.text)
     THEN IngestFails("get_pdf_text",
                      Raise("", "No text could be extracted from the provided PDFs"),
                      ing.trace, <<>>, store)
     ELSE /\ ing' = [ing EXCEPT !.pc = "text", !.batch = <<>>]
          /\ UNCHANGED <<store, apiKey, last, lastOK, procs, pure>>

GetTextChunks(raw) ==
  /\ ing.pc = "text"
  /\ LET r == get_text_chunks(ing.text, raw)
     IN IF r.res.ok
        THEN /\ ing' = [ing EXCEPT !.pc = "chunks", !.chunks = r.chunks,
                                   !.trace = @ \o r.trace]
             /\ UNCHANGED <<store, apiKey, last, lastOK, procs, pure>>
        ELSE IngestFails("get_text_chunks", r.res, ing.trace \o r.trace, <<>>, store)

GetVectorStore(F) ==
  /\ ing.pc = "chunks"
  /\ LET r == get_vector_store(ing.chunks, store, F)
     IN IF r.res.ok
        THEN /\ ing' = IdleIng
             /\ last' = IngestCall("get_vector_store", r.res, ing.trace \o r.trace, store,
                                   ing.chunks)
             /\ store' = r.store
             /\ lastOK' = <<ing.chunks>>
             /\ UNCHANGED <<apiKey, procs, pure>>
        ELSE IngestFails("get_vector_store", r.res, ing.trace \o r.trace, ing.chunks,
                         r.store)

-----------------------------------------------------------------------------
(* Query calls, made while no ingest is under way.                         *)

QueryCall(op, q, model, F, d) ==
  [NoCall EXCEPT !.op = op, !.q = q, !.model = model, !.faults = F, !.res = d.res,
                 !.trace = d.trace, !.docs = d.docs, !.warned = d.warned,
                 !.calls = d.calls, !.pre = store]

ProcessQuestion(q, model, F) ==
  /\ ing.pc = "idle"
  /\ last' = QueryCall("process_question", q, model, F,
                       process_question(q, model, store, apiKey, F))
  /\ UNCHANGED <<store, apiKey, ing, lastOK, procs, pure>>

ProcessQuestionSimple(q, model, F) ==
  /\ ing.pc = "idle"
  /\ last' = QueryCall("process_question_simple", q, model, F,
                       process_question_simple(q, model, store, apiKey, F))
  /\ UNCHANGED <<store, apiKey, ing, lastOK, procs, pure>>

Next ==
  \/ \E q \in Questions, model \in Models, F \in QueryFaults :
        ProcessQuestion(q, model, F)
  \/ \E q \in Questions, model \in Models, F \in QueryFaults :
        ProcessQuestionSimple(q, model, F)
  \/ GetPdfTextBegin
  \/ \E d \in DocPool : GetPdfTextDoc(d)
  \/ GetPdfTextEnd
  \/ \E raw \in SplitOutputs : GetTextChunks(raw)
  \/ \E F \in IngestFaults : GetVectorStore(F)

Spec == Init /\ [][Next]_vars

-----------------------------------------------------------------------------
(* Properties.                                                             *)

QueryOps == {"process_question", "process_question_simple"}

\* the call that completed last attempted the engine call `name`
Attempted(name) == \E i \in 1..Len(last.trace) : last.trace[i][1] = name

\* empty or whitespace only
WhitespaceOnly(s) == \A i \in 1..Len(s) : s[i] \in {" ", "\n", "\t"}

\* C1: an ingest that fails at any stage before the persist step (text
\* extraction, chunking, embedding, index building) leaves the storage
\* location exactly as it was before the ingest started: absent if it was
\* absent, the prior index unchanged if there was one.
IngestAllOrNothing ==
  (last.op = "ingest" /\ ~last.res.ok /\ ~Attempted("persist")) => store = last.pre

\* an ingest failed while building the index, over an index already there
IngestFailedBeforePersist ==
  /\ last.op = "ingest"
  /\ ~last.res.ok
  /\ last.res.cause = "index build failed"
  /\ last.pre = Full(<<A51>>)
  /\ store = last.pre

NeverPersisted == lastOK = <<>> /\ store.pkl = <<>>

\* C3 as stated: a query with a non-blank question against a location on
\* which no ingest has ever persisted an index fails with the
\* index-not-found error, and the completion service is never invoked.
NeverIngestedIsIndexNotFound ==
  (last.op \in QueryOps /\ ~WhitespaceOnly(last.q) /\ NeverPersisted) =>
    /\ ~last.res.ok
    /\ last.res.cause = "Vector store not found"
    /\ last.calls = <<>>
    /\ ~Attempted("complete")

\* C3 as amended: such a query always fails and never invokes the
\* completion service; the error is the index-not-found error when the
\* embedding model loads and the index directory does not exist.  The
\* embedding model is constructed before the existence check, so its
\* failure is reported instead; and when a failed save_local left the
\* directory behind, the existence check passes and the load fails.
NeverIngestedQueryFails ==
  (last.op \in QueryOps /\ ~WhitespaceOnly(last.q) /\ NeverPersisted) =>
    /\ ~last.res.ok
    /\ last.calls = <<>>
    /\ ~Attempted("complete")
    /\ last.res.cause =
         IF "embedder" \in last.faults THEN "embedding model failed to load"
         ELSE IF ~store.dir THEN "Vector store not found"
         ELSE "index load failed"

\* a query against a location with no directory got the index-not-found error
QueryFoundNoIndex ==
  /\ last.op = "process_question_simple"
  /\ ~WhitespaceOnly(last.q)
  /\ NeverPersisted
  /\ ~store.dir
  /\ last.model \notin AVAILABLE_MODELS
  /\ last.res.cause = "Vector store not found"

\* the failures of get_pdf_text that come from one document
DocErrors == {"PDF file not found", "PdfReader failed"}

\* C4: an ingest of an empty batch, and of any batch whose extracted text is
\* blank, fails with the empty-input error of get_pdf_text; the chunker, the
\* embedder and the persist step are not reached (a text that reaches them
\* is never blank) and the storage location is unchanged.
BlankTextFailsBeforeWrite ==
  /\ ing.pc \in {"text", "chunks"} => ~WhitespaceOnly(ing.text)
  /\ (/\ last.op = "ingest"
      /\ last.stage = "get_pdf_text"
      /\ WhitespaceOnly(last.text)
      /\ last.res.cause \notin DocErrors) =>
       /\ ~last.res.ok
       /\ last.res.cause = "No text could be extracted from the provided PDFs"
       /\ \A i \in 1..Len(last.trace) : last.trace[i][1] = "extract"
       /\ store = last.pre

\* an ingest of no documents at all failed, over an index already there
EmptyBatchRejected ==
  /\ last.op = "ingest"
  /\ last.trace = <<>>
  /\ last.res.cause = "No text could be extracted from the provided PDFs"
  /\ last.pre = Full(<<A51>>)
  /\ store = last.pre

\* an ingest whose documents gave only whitespace failed the same way
BlankBatchRejected ==
  /\ last.op = "ingest"
  /\ last.text = <<" ", "\n">>
  /\ last.res.cause = "No text could be extracted from the provided PDFs"
  /\ store = last.pre

\* C5 as stated: the two entry points are equivalent: on the same question,
\* model, storage, API key and engine behaviour they both fail or both
\* return the same answer.
QueryModesEquivalent ==
  last.op \in QueryOps =>
    LET other == IF last.op = "process_question"
                 THEN process_question_simple(last.q, last.model, store, apiKey,
                                              last.faults)
                 ELSE process_question(last.q, last.model, store, apiKey, last.faults)
    IN /\ other.res.ok = last.res.ok
       /\ last.res.ok => other.res.val = last.res.val

\* C6 as stated: a query that returns, returns the text the completion
\* service produced for the question and the retrieved context; no query
\* returns an answer made locally.
QueryAnswerIsSynthesized ==
  (last.op \in QueryOps /\ last.res.ok) =>
    /\ Len(last.calls) = 1
    /\ last.calls[1].prompt = Prompt(Context(last.docs), last.q)
    /\ last.res.val = Completion(last.calls[1].prompt, last.calls[1].model)

\* C7: a query whose question is empty or whitespace only fails with the
\* empty-question error in both entry points, whatever the storage and the
\* API key, before the embedder is constructed, the index loaded or the
\* completion service invoked.
BlankQuestionRejectedFirst ==
  (last.op \in QueryOps /\ WhitespaceOnly(last.q)) =>
    /\ ~last.res.ok
    /\ last.res.cause = "Question cannot be empty"
    /\ last.trace = <<>>
    /\ last.calls = <<>>

\* a whitespace-only question was refused with no index, no key and an
\* embedding model that would not have loaded
BlankQuestionRefused ==
  /\ last.op = "process_question_simple"
  /\ last.q = <<" ", "\n">>
  /\ ~store.dir
  /\ ~apiKey
  /\ last.faults = {"embedder"}
  /\ last.res.cause = "Question cannot be empty"

\* the storage location holds a complete index: both files are there
IndexPresent == store.dir /\ store.faiss # <<>> /\ store.pkl # <<>>

\* the call that completed last, had it been made with a listed model
WithListedModel ==
  IF last.op = "process_question"
  THEN process_question(last.q, "llama-3.3-70b-versatile", store, apiKey, last.faults)
  ELSE process_question_simple(last.q, "llama-3.3-70b-versatile", store, apiKey,
                               last.faults)

\* C8 as stated: a query with a model that is not listed, a non-blank
\* question, an index present and the API key set goes through load and
\* retrieval and invokes the completion service with that model.
UnlistedModelReachesCompletion ==
  (/\ last.op \in QueryOps
   /\ last.model \notin AVAILABLE_MODELS
   /\ ~WhitespaceOnly(last.q)
   /\ IndexPresent
   /\ apiKey) =>
    /\ Attempted("load")
    /\ Attempted("search")
    /\ Len(last.calls) = 1
    /\ last.calls[1].model = last.model

\* C8 as amended: a model that is not listed is never refused: the call
\* attempts the same engine calls, retrieves the same documents and ends
\* the same way as with a listed model, but for the warning process_question
\* prints and the model handed to the completion service, which is the one
\* supplied; the service is invoked whenever no engine call fails and
\* (in process_question_simple) retrieval returns a document.
ModelCheckIsAdvisory ==
  (/\ last.op \in QueryOps
   /\ last.model \notin AVAILABLE_MODELS
   /\ ~WhitespaceOnly(last.q)) =>
    LET ref == WithListedModel
    IN /\ last.res.ok = ref.res.ok
       /\ last.res.cause = ref.res.cause
       /\ last.trace = ref.trace
       /\ last.docs = ref.docs
       /\ last.res.val.src = ref.res.val.src
       /\ last.res.val.prompt = ref.res.val.prompt
       /\ last.res.val.src = "backend" => last.res.val.model = last.model
       /\ Len(last.calls) = Len(ref.calls)
       /\ \A i \in 1..Len(last.calls) :
            /\ last.calls[i].prompt = ref.calls[i].prompt
            /\ last.calls[i].model = last.model
       /\ last.warned = (last.op = "process_question")
       /\ (/\ IndexPresent
           /\ store.faiss = store.pkl
           /\ apiKey
           /\ last.faults = {}
           /\ (last.op = "process_question" \/ store.pkl[1] # <<>>)) =>
            (Len(last.calls) = 1 /\ last.res.ok)

\* process_question was given a model that is not listed and returned the
\* completion made under that model
UnlistedModelAnswered ==
  /\ last.op = "process_question"
  /\ last.model \notin AVAILABLE_MODELS
  /\ last.warned
  /\ last.res.ok
  /\ last.res.val.src = "backend"
  /\ last.res.val.model = last.model

NoKeyError == "GROQ_API_KEY not found in environment variables"

\* C9 as stated: with the API key absent, a query with a non-blank question
\* against an ingested location fails with the configuration error, and the
\* completion service is never invoked.
MissingKeyIsConfigurationError ==
  (/\ last.op \in QueryOps
   /\ ~WhitespaceOnly(last.q)
   /\ ~apiKey
   /\ lastOK # <<>>) =>
    /\ ~last.res.ok
    /\ last.res.cause = NoKeyError
    /\ last.calls = <<>>

\* C9 as amended: such a query always fails and never invokes the
\* completion service; the error is the configuration error unless an
\* engine call made before the key is read fails first: the embedding model
\* or the load in either entry point, and the search in
\* process_question_simple, which searches before it reads the key.
MissingKeyNeverCompletes ==
  (/\ last.op \in QueryOps
   /\ ~WhitespaceOnly(last.q)
   /\ ~apiKey
   /\ lastOK # <<>>) =>
    /\ ~last.res.ok
    /\ last.calls = <<>>
    /\ ~Attempted("complete")
    /\ \/ last.res.cause = NoKeyError
       \/ last.res.cause = "embedding model failed to load" /\ "embedder" \in last.faults
       \/ last.res.cause = "index load failed" /\ "load" \in last.faults
       \/ /\ last.res.cause = "retrieval failed"
          /\ last.op = "process_question_simple"
          /\ ("search" \in last.faults \/ store.faiss # store.pkl)
    /\ (last.faults = {} /\ store.faiss = store.pkl) => last.res.cause = NoKeyError
    /\ (last.op = "process_question" /\ last.faults \cap {"embedder", "load"} = {}) =>
         last.res.cause = NoKeyError

\* process_question_simple, with no key, retrieved documents from an
\* ingested index and then failed with the configuration error
MissingKeyRefused ==
  /\ last.op = "process_question_simple"
  /\ ~apiKey
  /\ lastOK # <<>>
  /\ last.docs # <<>>
  /\ last.res.cause = NoKeyError

\* the engine call whose failure gives each message
FailedStep(cause) ==
  CASE cause = "PdfReader failed" -> "extract"
    [] cause = "embedding model failed to load" -> "embedder"
    [] cause = "embedding failed" -> "embed"
    [] cause = "index build failed" -> "build"
    [] cause = "index write failed" -> "persist"
    [] cause = "index load failed" -> "load"
    [] cause = "retrieval failed" -> "search"
    [] cause = "completion failed" -> "complete"
    [] OTHER -> ""

NoRepeat(trace) ==
  \A i, j \in 1..Len(trace) : trace[i] = trace[j] => i = j

\* C10: nothing is retried: within one ingest or one query each engine call
\* (extract per document, embed, build, persist, load, search, complete) is
\* attempted at most once, and the call that failed is the last one
\* attempted before the error reaches the caller.
NoRetries ==
  /\ NoRepeat(ing.trace)
  /\ NoRepeat(last.trace)
  /\ (~last.res.ok /\ FailedStep(last.res.cause) # "") =>
       /\ last.trace # <<>>
       /\ last.trace[Len(last.trace)][1] = FailedStep(last.res.cause)

\* a query whose search failed stopped there
QueryStoppedAtSearch ==
  /\ last.op = "process_question"
  /\ last.res.cause = "retrieval failed"
  /\ last.trace = <<Step("embedder", 0), Step("load", 0), Step("search", 0)>>

\* an ingest whose save_local failed stopped there, after two documents
IngestStoppedAtPersist ==
  /\ last.op = "ingest"
  /\ last.res.cause = "index write failed"
  /\ last.trace = <<Step("extract", 1), Step("extract", 2), Step("split", 0),
                    Step("embedder", 0), Step("embed", 0), Step("build", 0),
                    Step("persist", 0)>>

-----------------------------------------------------------------------------
(* Error kinds.                                                            *)

\* the error kind the contract names for each failure the stages detect
ErrorKind(cause) ==
  CASE cause = "Question cannot be empty" -> "EmptyQuestionError"
    [] cause = "Vector store not found" -> "IndexNotFoundError"
    [] cause = "GROQ_API_KEY not found in environment variables" -> "ConfigurationError"
    [] cause = "completion failed" -> "SynthesisError"
    [] cause = "Input text is empty" -> "EmptyInputError"
    [] cause = "No text could be extracted from the provided PDFs" -> "EmptyInputError"
    [] cause = "No valid text chunks created" -> "NoValidChunksError"
    [] OTHER -> "IOError"

\* C11 as stated: a failure reaches the caller as the error kind of the
\* stage that detected it (EmptyQuestionError, IndexNotFoundError,
\* ConfigurationError, SynthesisError, EmptyInputError, NoValidChunksError),
\* and two failures detected by different stages never reach the caller as
\* the same kind: a failed query is told apart by its kind from the
\* blank-question failure of the same entry point.
ErrorKindsDistinct ==
  ~last.res.ok =>
    /\ last.res.exc = ErrorKind(last.res.cause)
    /\ (last.op \in QueryOps /\ last.res.cause # "Question cannot be empty") =>
         last.res.exc # process_question(<<>>, last.model, store, apiKey, {}).res.exc

-----------------------------------------------------------------------------
(* Concurrent callers.  rag.py takes no lock and keeps no state in memory  *)
(* between calls: callers meet only at the storage location.  A call is    *)
(* cut at each access to it: an ingest at the three writes of save_local   *)
(* (the directory, index.faiss, index.pkl), a query at the existence check *)
(* and the two reads of load_local; what a call does between two accesses  *)
(* is local to it and is done with the access that follows.                *)

\* chunk lists get_text_chunks hands to get_vector_store: one chunk, two chunks
ChunkLists == {<<A51>>, <<A51, PadB51>>}

\* the engine faults taken up among concurrent callers
RaceIngestFaults == {{}, {"write_pkl"}}

RaceQueryFaults == {{}, {"load"}}

RaceQuestions == {<<"a">>, <<" ", "\n">>}

InFlight(p) == procs[p].pc \notin {"idle", "done"}

IngestInFlight == \E p \in Procs : procs[p].kind = "ingest" /\ InFlight(p)

\* caller p returns from (or is raised out of) its call
Finish(p, out) ==
  [procs EXCEPT ![p].pc = "done", ![p].out = out, ![p].faiss = <<>>]

\* get_vector_store is entered by caller p: the chunks are embedded and the
\* index built in memory, then save_local creates the directory
IngestStart(p, text_chunks, F) ==
  /\ procs[p].pc = "idle"
  /\ LET r == get_vector_store(text_chunks, store, F)
         me == [IdleProc EXCEPT !.kind = "ingest", !.op = "get_vector_store",
                                !.chunks = text_chunks, !.faults = F]
         seen == [o \in Procs |->
                    IF o = p THEN me
                    ELSE IF procs[o].kind = "query" /\ InFlight(o)
                    THEN [procs[o] EXCEPT !.clean = FALSE]
                    ELSE procs[o]]
     IN IF F \cap {"embedder", "embed", "build", "mkdir"} # {}
        THEN /\ procs' = [procs EXCEPT ![p] = [me EXCEPT !.pc = "done",
                                                  !.out = Did(r.res, r.trace, <<>>, FALSE, <<>>)]]
             /\ UNCHANGED store
        ELSE /\ procs' = [seen EXCEPT ![p].pc = "write_faiss"]
             /\ store' = [store EXCEPT !.dir = TRUE]
  /\ UNCHANGED <<apiKey, ing, last, lastOK, pure>>

\* save_local writes index.faiss
IngestWriteFaiss(p) ==
  /\ procs[p].kind = "ingest"
  /\ procs[p].pc = "write_faiss"
  /\ LET me == procs[p]
         r == get_vector_store(me.chunks, store, me.faults)
     IN IF "write_faiss" \in me.faults
        THEN /\ procs' = Finish(p, Did(r.res, r.trace, <<>>, FALSE, <<>>))
             /\ UNCHANGED store
        ELSE /\ procs' = [procs EXCEPT ![p].pc = "write_pkl"]
             /\ store' = [store EXCEPT !.faiss = <<me.chunks>>]
  /\ UNCHANGED <<apiKey, ing, last, lastOK, pure>>

\* save_local writes index.pkl and get_vector_store returns
IngestWritePkl(p) ==
  /\ procs[p].kind = "ingest"
  /\ procs[p].pc = "write_pkl"
  /\ LET me == procs[p]
         r == get_vector_store(me.chunks, store, me.faults)
     IN /\ procs' = Finish(p, Did(r.res, r.trace, <<>>, FALSE, <<>>))
        /\ IF "write_pkl" \in me.faults
           THEN UNCHANGED <<store, lastOK>>
           ELSE /\ store' = [store EXCEPT !.pkl = <<me.chunks>>]
                /\ lastOK' = <<me.chunks>>
  /\ UNCHANGED <<apiKey, ing, last, pure>>

\* the query function that caller p is in, applied to the storage as seen
QueryOf(me, st) ==
  IF me.op = "process_question"
  THEN process_question(me.q, me.model, st, apiKey, me.faults)
  ELSE process_question_simple(me.q, me.model, st, apiKey, me.faults)

\* the start of a query as it would be if it created the index directory
\* when it is not there
QueryStart_creating(p, op, q, model, F) ==
  /\ procs[p].pc = "idle"
  /\ LET me == [IdleProc EXCEPT !.kind = "query", !.op = op, !.q = q, !.model = model,
                                !.faults = F, !.pre = store, !.clean = ~IngestInFlight]
     IN IF Blank(q) \/ "embedder" \in F
        THEN /\ procs' = [procs EXCEPT ![p] = [me EXCEPT !.pc = "done",
                                                  !.out = QueryOf(me, store)]]
             /\ UNCHANGED store
        ELSE /\ procs' = [procs EXCEPT ![p] = [me EXCEPT !.pc = "read_faiss"]]
             /\ store' = [store EXCEPT !.dir = TRUE]
  /\ UNCHANGED <<apiKey, ing, last, lastOK, pure>>

\* a query is entered by caller p: the blank check, the model warning, the
\* embedder, then os.path.exists(index_path)
QueryStart(p, op, q, model, F) ==
  /\ procs[p].pc = "idle"
  /\ LET me == [IdleProc EXCEPT !.kind = "query", !.op = op, !.q = q, !.model = model,
                                !.faults = F, !.pre = store, !.clean = ~IngestInFlight]
     IN IF Blank(q) \/ "embedder" \in F \/ ~Exists(store)
        THEN procs' = [procs EXCEPT ![p] = [me EXCEPT !.pc = "done",
                                               !.out = QueryOf(me, store)]]
        ELSE procs' = [procs EXCEPT ![p] = [me EXCEPT !.pc = "read_faiss"]]
  /\ UNCHANGED <<store, apiKey, ing, last, lastOK, pure>>

\* load_local reads index.faiss
QueryReadFaiss(p) ==
  /\ procs[p].kind = "query"
  /\ procs[p].pc = "read_faiss"
  /\ LET me == procs[p]
     IN IF "load" \in me.faults \/ store.faiss = <<>>
        THEN procs' = Finish(p, QueryOf(me, [store EXCEPT !.dir = TRUE, !.faiss = <<>>]))
        ELSE procs' = [procs EXCEPT ![p].pc = "read_pkl", ![p].faiss = store.faiss]
  /\ UNCHANGED <<store, apiKey, ing, last, lastOK, pure>>

\* load_local reads index.pkl; the rest of the query (the key, the search,
\* the completion) runs on the handle made of the two files as read
QueryReadPkl(p) ==
  /\ procs[p].kind = "query"
  /\ procs[p].pc = "read_pkl"
  /\ LET me == procs[p]
     IN procs' = Finish(p, QueryOf(me, [dir |-> TRUE, faiss |-> me.faiss,
                                        pkl |-> store.pkl]))
  /\ UNCHANGED <<store, apiKey, ing, last, lastOK, pure>>

\* caller p is back from its call and free to make another
Return(p) ==
  /\ procs[p].pc = "done"
  /\ procs' = [procs EXCEPT ![p] = IdleProc]
  /\ UNCHANGED <<store, apiKey, ing, last, lastOK, pure>>

InitConcurrent ==
  /\ store \in {NoDir, Full(<<>>), Full(<<A51>>)}
  /\ apiKey \in BOOLEAN
  /\ ing = IdleIng
  /\ last = NoCall
  /\ lastOK = <<>>
  /\ procs = [p \in Procs |-> IdleProc]
  /\ chk = NoChk
  /\ js = NoJs
  /\ notes = NoNotes
  /\ upload = NoUpload
  /\ video = NoVideo

NextConcurrent ==
  \/ \E p \in Procs, c \in ChunkLists, F \in RaceIngestFaults : IngestStart(p, c, F)
  \/ \E p \in Procs : IngestWriteFaiss(p)
  \/ \E p \in Procs : IngestWritePkl(p)
  \/ \E p \in Procs, op \in QueryOps, q \in RaceQuestions, F \in RaceQueryFaults :
        QueryStart(p, op, q, "llama-3.3-70b-versatile", F)
  \/ \E p \in Procs : QueryReadFaiss(p)
  \/ \E p \in Procs : QueryReadPkl(p)
  \/ \E p \in Procs : Return(p)

SpecConcurrent == InitConcurrent /\ [][NextConcurrent]_vars

\* caller p has returned from a successful ingest
IngestDone(p) ==
  procs[p].kind = "ingest" /\ procs[p].pc = "done" /\ procs[p].out.res.ok

\* C12 as stated: when two ingests have run against the storage location
\* and both have completed, the persisted index is entirely the index of the
\* ingest whose persist step finished last, never a mixture of the two.
LastWriterWins ==
  (\A p \in Procs : IngestDone(p)) => store = Full(lastOK[1])

\* caller p has returned from a query during which no ingest was in flight
QueryRanClean(p) ==
  procs[p].kind = "query" /\ procs[p].pc = "done" /\ procs[p].clean

\* C13: a query is read-only: no step of a query call, in either entry
\* point, whether it goes on or fails, changes the storage location; and a
\* query during which no ingest is in flight, whatever other queries run at
\* the same time, gets the result it would get alone against the storage as
\* it was when the query started.
QueryIsReadOnly ==
  /\ [](\A p \in Procs : QueryRanClean(p) => procs[p].out = QueryOf(procs[p], procs[p].pre))
  /\ [][\A p \in Procs :
          (procs'[p].kind = "query" /\ procs'[p].pc # procs[p].pc) => store' = store]_vars

\* one query has returned an answer made from an ingested index while
\* another query is between its two reads of that index
QueriesInterleaved ==
  /\ QueryRanClean("p1")
  /\ procs["p1"].out.res.ok
  /\ procs["p1"].out.docs # <<>>
  /\ lastOK # <<>>
  /\ procs["p2"].kind = "query"
  /\ procs["p2"].pc = "read_pkl"
  /\ procs["p2"].clean

-----------------------------------------------------------------------------
(* get_text_chunks on its own, on texts made of paragraphs.  The splitter  *)
(* is built with chunk_size 1000 and the separators "\n\n", "\n", " ", "": *)
(* it cuts the text at blank lines, puts back together neighbours that fit *)
(* in one chunk, and strips each chunk.  The texts taken here are made of  *)
(* paragraphs without whitespace of which no two neighbours fit in one     *)
(* chunk, so that split_text returns the paragraphs themselves.            *)

chunk_size == 1000

Separator == <<"\n", "\n">>

\* paragraphs: two long ones, one of 51 characters, one of 50, one of 4
Pieces == {Rep("a", 997), Rep("b", 996), Rep("c", 51), Rep("c", 50), Rep("d", 4)}

\* neither is a paragraph cut further nor are two neighbours merged
NoMerge(ps) ==
  /\ \A i \in 1..Len(ps) : Len(ps[i]) + Len(Separator) < chunk_size
  /\ \A i \in 1..(Len(ps) - 1) : Len(ps[i]) + Len(Separator) + Len(ps[i + 1]) > chunk_size

PieceLists == {ps \in UNION {[1..n -> Pieces] : n \in 1..MaxPieces} : NoMerge(ps)}

\* a call of get_text_chunks about to be made: the text, and what
\* split_text will return for it
ChunkerInput(text, raw) ==
  [pc |-> "call", text |-> text, raw |-> raw,
   out |-> [res |-> Ok(NoAnswer), chunks |-> <<>>, trace |-> <<>>]]

ChunkerInputs ==
  {ChunkerInput(Join(ps, Separator), ps) : ps \in PieceLists}
  \cup {ChunkerInput(t, <<>>) : t \in {<<>>, <<" ">>, Separator}}

InitChunker ==
  /\ chk \in ChunkerInputs
  /\ store = NoDir
  /\ apiKey = FALSE
  /\ ing = IdleIng
  /\ last = NoCall
  /\ lastOK = <<>>
  /\ procs = [p \in Procs |-> IdleProc]
  /\ js = NoJs
  /\ notes = NoNotes
  /\ upload = NoUpload
  /\ video = NoVideo

\* text_chunks = get_text_chunks(raw_text)
CallGetTextChunks ==
  /\ chk.pc = "call"
  /\ chk' = [chk EXCEPT !.pc = "done", !.out = get_text_chunks(chk.text, chk.raw)]
  /\ UNCHANGED <<store, apiKey, ing, last, lastOK, procs, js, notes, upload, video>>

NextChunker == CallGetTextChunks

SpecChunker == InitChunker /\ [][NextChunker]_vars

\* the filter the contract describes: trimmed length at least the threshold
AtLeastMin(chunk) == Len(Strip(chunk)) >= MinChunkLen

\* C14 as stated: get_text_chunks drops a chunk of the splitter if and only
\* if its trimmed length is below 50: it returns, in the splitter's order,
\* exactly the chunks whose trimmed length is at least 50, so that a chunk of
\* trimmed length exactly 50 is kept and none returned is shorter than 50.
FilterKeepsAtLeastFifty ==
  (chk.pc = "done" /\ ~Blank(chk.text)) =>
    LET kept == SelectSeq(chk.raw, AtLeastMin)
    IN /\ chk.out.chunks = kept
       /\ chk.out.res.ok = (kept # <<>>)

\* C15: get_text_chunks fails with the empty-input error exactly when the
\* text is blank once trimmed, fails with the no-valid-chunks error exactly
\* when the text is not blank and the filter removes every chunk of the
\* splitter, and otherwise returns a chunk list that is not empty.
ChunkerErrorsExact ==
  chk.pc = "done" =>
    LET allFiltered == \A i \in 1..Len(chk.raw) : Len(Strip(chk.raw[i])) <= MinChunkLen
        res == chk.out.res
    IN /\ (~res.ok /\ res.cause = "Input text is empty") <=> WhitespaceOnly(chk.text)
       /\ (~res.ok /\ res.cause = "No valid text chunks created") <=>
            (~WhitespaceOnly(chk.text) /\ allFiltered)
       /\ ~res.ok => res.cause \in {"Input text is empty", "No valid text chunks created"}
       /\ res.ok => chk.out.chunks # <<>>
       /\ ~res.ok => (res.wrap = "Error splitting text" /\ chk.out.chunks = <<>>)

\* a text of one paragraph of 50 characters was refused: no valid chunks
AllChunksFiltered ==
  /\ chk.pc = "done"
  /\ chk.raw = <<Rep("c", 50)>>
  /\ chk.out.res.cause = "No valid text chunks created"

\* a blank text that is not empty was refused as empty input
BlankTextRefused ==
  /\ chk.pc = "done"
  /\ chk.text = Separator
  /\ chk.out.res.cause = "Input text is empty"

\* the positions of text at which chunk c occurs
Occurrences(c, text) ==
  {j \in 1..(Len(text) - Len(c) + 1) : SubSeq(text, j, j + Len(c) - 1) = c}

\* the positions of text that lie in an occurrence of one of the chunks
Covered(chunks, text) ==
  UNION {UNION {j..(j + Len(chunks[k]) - 1) : j \in Occurrences(chunks[k], text)}
         : k \in 1..Len(chunks)}

\* the positions of text that hold something other than whitespace
Inked(text) == {i \in 1..Len(text) : ~IsSpace(text[i])}

\* C16 as stated: when get_text_chunks returns, the chunks returned cover
\* every character of the text (whitespace between chunks left aside): no
\* part of the text is in no returned chunk.
ChunksCoverInput ==
  (chk.pc = "done" /\ chk.out.res.ok) =>
    Inked(chk.text) \subseteq Covered(chk.out.chunks, chk.text)

\* C16 as amended: the chunks of the splitter cover every character of the
\* text that is not whitespace, and get_text_chunks returns, in order, those
\* of them that pass the filter; so what the returned chunks leave out of
\* the text is whitespace and the splitter's chunks of trimmed length 50 or
\* less, which are in no returned chunk unless they occur inside one.
ChunksCoverButFiltered ==
  (chk.pc = "done" /\ chk.out.res.ok) =>
    LET short == SelectSeq(chk.raw, LAMBDA c : Len(Strip(c)) <= MinChunkLen)
        long == SelectSeq(chk.raw, LAMBDA c : Len(Strip(c)) > MinChunkLen)
    IN /\ chk.out.chunks = long
       /\ Inked(chk.text) \subseteq
            (Covered(chk.out.chunks, chk.text) \cup Covered(short, chk.text))
       /\ \A k \in 1..Len(chk.out.chunks) : Occurrences(chk.out.chunks[k], chk.text) # {}

\* get_text_chunks returned the long paragraph of a text and left its last
\* paragraph, 4 characters after a blank line, out
ShortTailLeftOut ==
  /\ chk.pc = "done"
  /\ chk.raw = <<Rep("a", 997), Rep("d", 4)>>
  /\ chk.out.res.ok
  /\ chk.out.chunks = <<Rep("a", 997)>>
  /\ ~(Inked(chk.text) \subseteq Covered(chk.out.chunks, chk.text))

-----------------------------------------------------------------------------
(* Retrieval.                                                              *)

\* how many times x is among the elements of seq
Times(x, seq) == Cardinality({i \in 1..Len(seq) : seq[i] = x})

\* the call that completed last is a query whose search went through, over
\* an index whose two files were written from the same chunks
Searched ==
  /\ last.op \in QueryOps
  /\ Attempted("search")
  /\ last.res.cause # "retrieval failed"
  /\ IndexPresent
  /\ store.faiss = store.pkl

\* C17: retrieval in a query returns min(4, N) chunks of an index of N
\* chunks, no entry of the index more than once, nearest to the question
\* first, and none left out that is nearer than one returned; with fewer
\* than 4 chunks in the index all of them are returned, once each.
RetrievalTopK ==
  Searched =>
    LET index == store.pkl[1]
        N == Len(index)
        qv == Embed(last.q)
        far(t) == Dist(Embed(t), qv)
        docs == IF last.op = "process_question_simple" /\ last.res.val = NoDocsAnswer
                THEN <<>> ELSE last.docs
    IN /\ last.docs = docs
       /\ Len(docs) = IF N < 4 THEN N ELSE 4
       /\ \A i \in 1..Len(docs) : Times(docs[i], docs) <= Times(docs[i], index)
       /\ \A i, j \in 1..Len(docs) : i < j => far(docs[i]) <= far(docs[j])
       /\ \A n \in 1..N : Times(index[n], docs) < Times(index[n], index) =>
            \A i \in 1..Len(docs) : far(docs[i]) <= far(index[n])
       /\ N < 4 => \A n \in 1..N : Times(index[n], docs) = Times(index[n], index)

\* a query over the index of five chunks retrieved the four nearest to the
\* question, nearest first, and not the fifth
FourOfFiveRetrieved ==
  /\ Searched
  /\ last.op = "process_question"
  /\ last.q = <<"a">>
  /\ store = Full(FiveChunks)
  /\ last.docs = <<Rep("a", 30) \o Rep("b", 30), A51, PadB51, Rep("a", 60)>>

\* a query over an index of two chunks retrieved both
BothOfTwoRetrieved ==
  /\ Searched
  /\ last.op = "process_question_simple"
  /\ last.q = <<"b">>
  /\ store = Full(<<A51, PadB51>>)
  /\ last.docs = <<PadB51, A51>>

-----------------------------------------------------------------------------
(* The prompt.                                                             *)

\* the documents one after the other with a blank line between two
BlankLineJoined(docs) ==
  LET upto[i \in 0..Len(docs)] ==
        IF i = 0 THEN <<>>
        ELSE IF i = 1 THEN docs[1]
        ELSE upto[i - 1] \o <<"\n", "\n">> \o docs[i]
  IN upto[Len(docs)]

\* C18: in a query that reaches the completion service the prompt sent,
\* once, is the fixed template, which holds the sentence "Answer is not
\* available in the context", filled with the question of the call and with
\* the context block made of the retrieved chunks in retrieval order with a
\* blank line between two: nothing else enters it.
PromptIsTemplate ==
  last.op \in QueryOps =>
    /\ Len(last.calls) <= 1
    /\ Attempted("complete") <=> last.calls # <<>>
    /\ \A c \in 1..Len(last.calls) :
         LET prompt == last.calls[c].prompt
             context == BlankLineJoined(last.docs)
             n == Len(context)
             k == Len(last.q)
         IN /\ Len(prompt) = 3 + n + 1 + k + 1
            /\ prompt[2] = "Answer is not available in the context"
            /\ SubSeq(prompt, 1, 3) = <<PromptOpening, NotAvailable, PromptRules>>
            /\ SubSeq(prompt, 4, 3 + n) = context
            /\ prompt[4 + n] = PromptMid
            /\ SubSeq(prompt, 5 + n, 4 + n + k) = last.q
            /\ prompt[5 + n + k] = PromptTail
            /\ last.res.ok => last.res.val.prompt = prompt

\* process_question_simple sent a prompt made of four retrieved chunks
FourChunkPromptSent ==
  /\ last.op = "process_question_simple"
  /\ last.calls # <<>>
  /\ Len(last.docs) = 4
  /\ last.q = <<"b">>
  /\ last.res.ok

-----------------------------------------------------------------------------
(* Text extraction.                                                        *)

\* the texts of the pages of the documents, in batch order then page order
PageTexts(batch) ==
  LET upto[i \in 0..Len(batch)] ==
        IF i = 0 THEN <<>> ELSE upto[i - 1] \o batch[i].pages
  IN upto[Len(batch)]

\* each page text that is not empty followed by a newline, one after another
NonEmptyLines(pages) ==
  LET filled == SelectSeq(pages, LAMBDA t : t # <<>>)
      upto[i \in 0..Len(filled)] ==
        IF i = 0 THEN <<>> ELSE upto[i - 1] \o filled[i] \o <<"\n">>
  IN upto[Len(filled)]

\* C19: in get_pdf_text a page whose extracted text is empty adds nothing
\* and stops nothing: the text built is, in batch order then page order,
\* every page text that is not empty followed by a newline; and the call
\* fails only on a document that is missing or that the reader cannot read,
\* or, the batch gone through, when the whole text is blank.
PdfTextIsConcatenation ==
  /\ ing.pc = "extract" =>
       /\ \A i \in 1..Len(ing.batch) : ing.batch[i].kind = "pdf"
       /\ Len(ing.batch) = ing.n
       /\ ing.text = NonEmptyLines(PageTexts(ing.batch))
  /\ ing.pc = "text" => ~WhitespaceOnly(ing.text)
  /\ (last.op = "ingest" /\ last.stage = "get_pdf_text") =>
       LET n == Len(last.batch)
       IN /\ ~last.res.ok
          /\ \/ /\ last.res.cause = "PDF file not found"
                /\ n > 0
                /\ last.batch[n].kind = "missing"
                /\ \A i \in 1..(n - 1) : last.batch[i].kind = "pdf"
             \/ /\ last.res.cause = "PdfReader failed"
                /\ n > 0
                /\ last.batch[n].kind = "corrupt"
                /\ \A i \in 1..(n - 1) : last.batch[i].kind = "pdf"
             \/ /\ last.res.cause = "No text could be extracted from the provided PDFs"
                /\ \A i \in 1..n : last.batch[i].kind = "pdf"
                /\ last.text = NonEmptyLines(PageTexts(last.batch))
                /\ WhitespaceOnly(last.text)

\* two documents, of which one page gave no text, have been gone through
EmptyPageSkipped ==
  /\ ing.pc = "extract"
  /\ ing.batch = <<Pdf(<< <<>>, <<"a">> >>), Pdf(<< <<"b">>, <<" ">> >>)>>
  /\ ing.text = <<"a", "\n", "b", "\n", " ", "\n">>

-----------------------------------------------------------------------------
(* safe_json_parse of app/notegen/notegen.py, on strings over a few        *)
(* characters: the brackets, a digit, a space and a letter.  json.loads is *)
(* the decoder of the standard library: over these characters a JSON value *)
(* is a number (a run of digits), an empty object, or an array of at most  *)
(* one value; whitespace may stand around values.  The decoder raises      *)
(* JSONDecodeError on anything else, and RecursionError once objects and   *)
(* arrays are nested deeper than the interpreter allows, whether or not    *)
(* the text would have been valid; the depth allowed is scaled down here.  *)

JsonChars == {"{", "}", "[", "]", "1", " ", "x"}

JsonStrings == UNION {[1..n -> JsonChars] : n \in 0..MaxJsonLen}

\* nesting of arrays and objects beyond which json.loads raises RecursionError
MaxNesting == 3

\* the first position from i on that holds no whitespace
SkipSpace(s, i) ==
  IF \E j \in i..Len(s) : s[j] # " "
  THEN CHOOSE j \in i..Len(s) : s[j] # " " /\ \A k \in i..(j - 1) : s[k] = " "
  ELSE Len(s) + 1

\* the last position of the run of digits that starts at i
DigitsEnd(s, i) ==
  CHOOSE j \in i..Len(s) :
    /\ \A k \in i..j : s[k] = "1"
    /\ (j = Len(s) \/ s[j + 1] # "1")

Scanned(how, next, text) == [how |-> how, next |-> next, text |-> text]

RECURSIVE scan_once(_, _, _)
\* the decoder at position i of s, inside `depth` arrays: the value read,
\* written without whitespace, and the position after it
scan_once(s, i, depth) ==
  IF i > Len(s) THEN Scanned("JSONDecodeError", i, <<>>)
  ELSE IF s[i] = "1"
  THEN Scanned("value", DigitsEnd(s, i) + 1, SubSeq(s, i, DigitsEnd(s, i)))
  ELSE IF s[i] \in {"{", "["} /\ depth + 1 > MaxNesting
  THEN Scanned("RecursionError", i, <<>>)
  ELSE IF s[i] = "{"
  THEN LET k == SkipSpace(s, i + 1)
       IN IF k <= Len(s) /\ s[k] = "}"
          THEN Scanned("value", k + 1, <<"{", "}">>)
          ELSE Scanned("JSONDecodeError", k, <<>>)
  ELSE IF s[i] = "["
  THEN LET k == SkipSpace(s, i + 1)
       IN IF k <= Len(s) /\ s[k] = "]"
          THEN Scanned("value", k + 1, <<"[", "]">>)
          ELSE LET v == scan_once(s, k, depth + 1)
                   e == SkipSpace(s, v.next)
               IN IF v.how # "value" THEN v
                  ELSE IF e <= Len(s) /\ s[e] = "]"
                  THEN Scanned("value", e + 1, <<"[">> \o v.text \o <<"]">>)
                  ELSE Scanned("JSONDecodeError", e, <<>>)
  ELSE Scanned("JSONDecodeError", i, <<>>)

\* json.loads(s): the value, or the exception raised
json_loads(s) ==
  LET v == scan_once(s, SkipSpace(s, 1), 0)
  IN IF v.how # "value" THEN v
     ELSE IF SkipSpace(s, v.next) <= Len(s)
     THEN Scanned("JSONDecodeError", v.next, <<>>)
     ELSE v

\* str.find and str.rfind: positions counted from 0, -1 when c is not in s
find(s, c) ==
  IF \E i \in 1..Len(s) : s[i] = c
  THEN (CHOOSE i \in 1..Len(s) : s[i] = c /\ \A j \in 1..(i - 1) : s[j] # c) - 1
  ELSE -1

rfind(s, c) ==
  IF \E i \in 1..Len(s) : s[i] = c
  THEN (CHOOSE i \in 1..Len(s) : s[i] = c /\ \A j \in (i + 1)..Len(s) : s[j] # c) - 1
  ELSE -1

\* re.search(r'\{.*\}', s, re.DOTALL): the match, from the first "{" to the
\* last "}" after it, or none
brace_match(s) ==
  LET start == find(s, "{")
      end == rfind(s, "}")
  IN IF start >= 0 /\ end > start
     THEN [found |-> TRUE, group |-> SubSeq(s, start + 1, end + 1)]
     ELSE [found |-> FALSE, group |-> <<>>]

\* what safe_json_parse gives its caller: a parsed value, the default
\* structure (its id is a fresh uuid, left out here), or an exception
Parsed(text) == [raised |-> "", kind |-> "parsed", text |-> text, titles |-> <<>>]

DefaultStructure ==
  [raised |-> "", kind |-> "default", text |-> <<>>,
   titles |-> <<"Content Processing Error">>]

Raised(exc) == [raised |-> exc, kind |-> "none", text |-> <<>>, titles |-> <<>>]

\* safe_json_parse(json_str)
safe_json_parse(json_str) ==
  LET whole == json_loads(json_str)
      start == find(json_str, "{")
      cut == IF start > 0 THEN SubSeq(json_str, start + 1, Len(json_str)) ELSE json_str
      end == rfind(cut, "}")
      trimmed == IF end > 0 THEN SubSeq(cut, 1, end + 1) ELSE cut
      fixed == json_loads(trimmed)
      json_match == brace_match(trimmed)
      matched == json_loads(json_match.group)
  IN IF whole.how = "value" THEN Parsed(whole.text)
     ELSE IF whole.how # "JSONDecodeError" THEN Raised(whole.how)
     ELSE IF fixed.how = "value" THEN Parsed(fixed.text)
     ELSE IF fixed.how # "JSONDecodeError" THEN Raised(fixed.how)
     ELSE IF json_match.found /\ matched.how = "value" THEN Parsed(matched.text)
     ELSE IF json_match.found /\ matched.how # "JSONDecodeError" THEN Raised(matched.how)
     ELSE DefaultStructure

InitJson ==
  /\ js \in {[pc |-> "call", json_str |-> s, out |-> Raised("")] : s \in JsonStrings}
  /\ chk = NoChk
  /\ store = NoDir
  /\ apiKey = FALSE
  /\ ing = IdleIng
  /\ last = NoCall
  /\ lastOK = <<>>
  /\ procs = [p \in Procs |-> IdleProc]
  /\ notes = NoNotes
  /\ upload = NoUpload
  /\ video = NoVideo

CallSafeJsonParse ==
  /\ js.pc = "call"
  /\ js' = [js EXCEPT !.pc = "done", !.out = safe_json_parse(js.json_str)]
  /\ UNCHANGED <<store, apiKey, ing, last, lastOK, procs, chk, notes, upload, video>>

NextJson == CallSafeJsonParse

SpecJson == InitJson /\ [][NextJson]_vars

\* s is valid JSON
ValidJson(s) == json_loads(s).how = "value"

\* the part of s from its first "{" to its last "}", <<>> if there is none
FirstToLastBrace(s) ==
  LET opens == {i \in 1..Len(s) : s[i] = "{"}
      closes == {i \in 1..Len(s) : s[i] = "}"}
      lo == CHOOSE i \in opens : \A j \in opens : i <= j
      hi == CHOOSE i \in closes : \A j \in closes : j <= i
  IN IF opens = {} \/ closes = {} THEN <<>>
     ELSE IF hi < lo THEN <<>>
     ELSE SubSeq(s, lo, hi)

\* the value the three strategies give, taken in order
InOrder(s) ==
  IF ValidJson(s) THEN Parsed(json_loads(s).text)
  ELSE IF ValidJson(FirstToLastBrace(s)) THEN Parsed(json_loads(FirstToLastBrace(s)).text)
  ELSE DefaultStructure

\* C20 as stated: safe_json_parse raises for no string, and returns the
\* parse of the whole string when that is valid JSON, otherwise the parse of
\* the part from the first "{" to the last "}" when that is valid JSON,
\* otherwise the default structure with the one topic titled "Content
\* Processing Error".
SafeJsonParseNeverRaises ==
  js.pc = "done" =>
    /\ js.out.raised = ""
    /\ js.out = InOrder(js.json_str)

\* but for the strings on which the decoder raises RecursionError,
\* safe_json_parse returns what the three strategies give in order
SafeJsonParseInOrder ==
  (js.pc = "done" /\ js.out.raised = "") => js.out = InOrder(js.json_str)

\* safe_json_parse returned the object found between text it cut away
BracesRecovered ==
  /\ js.pc = "done"
  /\ js.json_str = <<"x", "{", "}", "x">>
  /\ js.out = Parsed(<<"{", "}">>)

-----------------------------------------------------------------------------
(* EnhancedTopicProcessor.process_content of app/notegen/notegen.py: the   *)
(* text is cleaned and split, each of the first two chunks is sent to the  *)
(* completion backend, and the topics of the replies are collected.  The   *)
(* splitter and the backend are the environment.  The splitter trims its   *)
(* chunks and drops the empty ones, so no chunk it returns is blank.  A    *)
(* reply is either the raising of the call, a short text that goes through *)
(* safe_json_parse as modelled above, or a JSON object with the key        *)
(* "topics", which json.loads decodes at once.                             *)

\* chunks that the splitter makes of a text
MaxChunks == 3

\* the largest number of topics returned
MaxTopics == 5

\* the k-th chunk of a text
Chunk(k) == Rep("c", k)

\* text_splitter.split_text(cleaned_text): the chunks, or an exception
SplitResults ==
  {[raised |-> FALSE, chunks |-> [k \in 1..n |-> Chunk(k)]] : n \in 0..MaxChunks}
  \cup {[raised |-> TRUE, chunks |-> <<>>]}

\* the keys that process_content ensures in every topic it collects
RequiredFields ==
  {"id", "key_concepts", "definitions", "examples", "summary", "subtopics"}

\* an item of a "topics" list: a JSON object with a title and the keys in
\* fields, or something that is not an object (a string, a number)
Topic(title, fields) == [dict |-> TRUE, title |-> title, fields |-> fields]

NotADict == [dict |-> FALSE, title |-> "", fields |-> {}]

\* the one topic of the default structure of safe_json_parse
DefaultTopic == Topic("Content Processing Error", RequiredFields \cup {"title"})

TopicTitles == <<"A", "B", "C", "D", "E", "F">>

\* the "topics" lists of the replies that are JSON objects: none, one topic
\* with a title only, one topic followed by a string, and as many topics as
\* process_content returns at most
ReplyTopics ==
  { <<>>,
    <<Topic("A", {"title"})>>,
    <<Topic("A", {"title", "summary"}), NotADict>>,
    [k \in 1..MaxTopics |-> Topic(TopicTitles[k], {"title"})] }

\* the texts of the other replies: not JSON, nested too deep, an object
\* without "topics", a number, an array
ReplyTexts ==
  { <<"x">>, <<"[", "[", "[", "[">>, <<"{", "}">>, <<"1">>, <<"[", "]">> }

Reply(kind, json_str, topics) == [kind |-> kind, json_str |-> json_str, topics |-> topics]

\* what client.chat.completions.create may do
Replies ==
  {Reply("raise", <<>>, <<>>)}
  \cup {Reply("text", s, <<>>) : s \in ReplyTexts}
  \cup {Reply("object", <<>>, t) : t \in ReplyTopics}

\* the state of the try block of one chunk after `data['topics']` is known,
\* or after an exception
Thrown(exc) == [raised |-> exc, topics |-> <<>>]

Data(topics) == [raised |-> "", topics |-> topics]

\* lines 135-148: the call, safe_json_parse, `'topics' in data`
Contents(reply) ==
  IF reply.kind = "raise" THEN Thrown("APIError")
  ELSE IF reply.kind = "object" THEN Data(reply.topics)
  ELSE LET data == safe_json_parse(reply.json_str)
       IN IF data.raised # "" THEN Thrown(data.raised)
          ELSE IF data.kind = "default" THEN Data(<<DefaultTopic>>)
          ELSE IF data.text[1] = "1" THEN Thrown("TypeError")
          ELSE Data(<<>>)

\* lines 150-155: the id is set, the other keys get a default if absent
Ensure(topic) == [topic EXCEPT !.fields = @ \cup RequiredFields]

\* the first item of topics that is not an object, Len(topics) + 1 if none
FirstBad(topics) ==
  IF \E k \in 1..Len(topics) : ~topics[k].dict
  THEN CHOOSE k \in 1..Len(topics) :
         ~topics[k].dict /\ \A j \in 1..(k - 1) : topics[j].dict
  ELSE Len(topics) + 1

\* lines 148-157: the topics appended before the loop ends or raises
Collected(topics) == [k \in 1..(FirstBad(topics) - 1) |-> Ensure(topics[k])]

Decimal == <<"1", "2", "3", "4">>

\* lines 162-170: the fallback topic of chunk i (counted from 0)
Fallback(i) == Topic("Content Section " \o Decimal[i + 1], RequiredFields \cup {"title"})

\* the try block of chunk i raised
ChunkRaises(contents) ==
  \/ contents.raised # ""
  \/ FirstBad(contents.topics) <= Len(contents.topics)

\* lines 134-170: enhanced_topics after the try block of chunk i and its handler
AfterChunk_dropping(enhanced_topics, i, contents) ==
  IF ChunkRaises(contents)
  THEN <<Fallback(i)>>
  ELSE enhanced_topics \o Collected(contents.topics)

AfterChunk(enhanced_topics, i, contents) ==
  enhanced_topics \o Collected(contents.topics)
  \o (IF ChunkRaises(contents) THEN <<Fallback(i)>> ELSE <<>>)

\* s[:n]
Slice(s, n) == SubSeq(s, 1, IF Len(s) < n THEN Len(s) ELSE n)

\* line 105: chunks[:2]
FirstTwo_all(chunks) == chunks

FirstTwo(chunks) == Slice(chunks, 2)

\* process_content has been called and has not begun
NotesCall ==
  [pc |-> "call", chunks |-> <<>>, i |-> 0, enhanced_topics |-> <<>>,
   replies |-> <<>>, calls |-> <<>>, hist |-> <<>>,
   out |-> [how |-> "", topics |-> <<>>]]

InitNotes ==
  /\ notes = NotesCall
  /\ store = NoDir
  /\ apiKey = FALSE
  /\ ing = IdleIng
  /\ last = NoCall
  /\ lastOK = <<>>
  /\ procs = [p \in Procs |-> IdleProc]
  /\ chk = NoChk
  /\ js = NoJs
  /\ upload = NoUpload
  /\ video = NoVideo

\* lines 96-102, 174-176: the text is cleaned and split; an exception of the
\* splitter leaves process_content as RuntimeError
ProcessContentBegin(split) ==
  /\ notes.pc = "call"
  /\ notes' =
       IF split.raised
       THEN [notes EXCEPT !.pc = "done", !.out = [how |-> "RuntimeError", topics |-> <<>>]]
       ELSE [notes EXCEPT !.pc = "loop", !.chunks = split.chunks]
  /\ UNCHANGED <<store, apiKey, ing, last, lastOK, procs, chk, js, upload, video>>

\* lines 105-170: one turn of the loop, on chunk notes.i (counted from 0);
\* replies, calls and hist record what happened and are not in the code
ProcessChunk(reply) ==
  /\ notes.pc = "loop"
  /\ notes.i < Len(FirstTwo(notes.chunks))
  /\ notes' =
       IF Blank(notes.chunks[notes.i + 1])
       THEN [notes EXCEPT !.i = @ + 1, !.hist = Append(@, notes.enhanced_topics)]
       ELSE LET after == AfterChunk(notes.enhanced_topics, notes.i, Contents(reply))
            IN [notes EXCEPT !.i = @ + 1,
                             !.enhanced_topics = after,
                             !.replies = Append(@, reply),
                             !.calls = Append(@, notes.i),
                             !.hist = Append(@, after)]
  /\ UNCHANGED <<store, apiKey, ing, last, lastOK, procs, chk, js, upload, video>>

\* line 172: return enhanced_topics[:5]
ProcessContentReturn ==
  /\ notes.pc = "loop"
  /\ notes.i = Len(FirstTwo(notes.chunks))
  /\ notes' = [notes EXCEPT !.pc = "done",
                            !.out = [how |-> "return",
                                     topics |-> Slice(notes.enhanced_topics, MaxTopics)]]
  /\ UNCHANGED <<store, apiKey, ing, last, lastOK, procs, chk, js, upload, video>>

NextNotes ==
  \/ \E split \in SplitResults : ProcessContentBegin(split)
  \/ \E reply \in Replies : ProcessChunk(reply)
  \/ ProcessContentReturn

SpecNotes == InitNotes /\ [][NextNotes]_vars

\* the calls of the backend made so far, by number
NotesCalls == IF notes.pc \in {"loop", "done"} THEN 1..Len(notes.calls) ELSE {}

\* enhanced_topics before and after the turn of the loop that made call c
Before(c) == IF notes.calls[c] = 0 THEN <<>> ELSE notes.hist[notes.calls[c]]

After(c) == notes.hist[notes.calls[c] + 1]

\* what the turn of call c appended
Added(c) == SubSeq(After(c), Len(Before(c)) + 1, Len(After(c)))

IsPrefix(s, t) == Len(s) <= Len(t) /\ s = SubSeq(t, 1, Len(s))

\* the topics of s with this title
Titled(s, title) == {k \in 1..Len(s) : s[k].title = title}

\* the reply is a text that no strategy of safe_json_parse can decode
NotJson(reply) ==
  /\ reply.kind = "text"
  /\ ~ValidJson(reply.json_str)
  /\ ~ValidJson(FirstToLastBrace(reply.json_str))
  /\ json_loads(reply.json_str).how = "JSONDecodeError"

\* the reply decodes to a value that holds no "topics": an object without
\* the key, or an array
NoTopicsKey(reply) ==
  /\ reply.kind = "text"
  /\ ValidJson(reply.json_str)
  /\ json_loads(reply.json_str).text[1] \in {"{", "["}

\* the reply makes the try block raise: the call fails, the decoder raises
\* RecursionError, the value decoded is a number, or an item of "topics" is
\* not an object
RaisesInTry(reply) ==
  \/ reply.kind = "raise"
  \/ reply.kind = "text" /\ json_loads(reply.json_str).how = "RecursionError"
  \/ reply.kind = "text" /\ ValidJson(reply.json_str)
       /\ json_loads(reply.json_str).text[1] = "1"
  \/ reply.kind = "object" /\ \E k \in 1..Len(reply.topics) : ~reply.topics[k].dict

\* the chunk failed: the call raised or its reply cannot be used as topics
ChunkFailed(reply) == RaisesInTry(reply) \/ NotJson(reply) \/ NoTopicsKey(reply)

\* process_content went through every one of the first two chunks and
\* returned
LoopCompleted ==
  notes.pc = "done" /\ notes.out.how = "return"
    => Len(notes.hist) = Len(Slice(notes.chunks, 2))

\* process_content raises only when the splitter did
RaisesOnlyWithoutChunks ==
  notes.pc = "done" /\ notes.out.how # "return" => notes.calls = <<>>

FirstTwoNonBlank(chunks) ==
  LET NonBlank(k) == ~Blank(chunks[k])
      idx == SelectSeq([k \in 1..Len(chunks) |-> k], NonBlank)
  IN [k \in 1..Len(Slice(idx, 2)) |-> idx[k] - 1]

\* C22: process_content calls the completion backend at most twice, once
\* for each of the first two non-blank chunks and never for a later chunk,
\* and returns at most 5 topics, each with the fields id, key_concepts,
\* definitions, examples, summary and subtopics.
AtMostTwoCallsFiveTopics ==
  /\ notes.pc \in {"loop", "done"} =>
       /\ Len(notes.calls) <= 2
       /\ IsPrefix(notes.calls, FirstTwoNonBlank(notes.chunks))
  /\ notes.pc = "done" /\ notes.out.how = "return" =>
       /\ notes.calls = FirstTwoNonBlank(notes.chunks)
       /\ Len(notes.out.topics) <= 5
       /\ \A k \in 1..Len(notes.out.topics) :
            /\ notes.out.topics[k].dict
            /\ RequiredFields \subseteq notes.out.topics[k].fields

\* three chunks, two calls, six topics collected, five returned
FiveOfSixReturned ==
  /\ notes.pc = "done"
  /\ Len(notes.chunks) = 3
  /\ notes.calls = <<0, 1>>
  /\ Len(notes.enhanced_topics) = 6
  /\ Len(notes.out.topics) = 5

-----------------------------------------------------------------------------
(* handle_upload of app/notegen/routes.py, the handler of POST /upload:    *)
(* the uploaded files with a pdf extension are saved into the upload       *)
(* folder, their text is extracted, process_content makes topics of it,    *)
(* and the saved files are removed.  The upload folder is a set of paths;  *)
(* saving a file, reading a PDF and removing a file may fail.              *)

\* files in one request
MaxFiles == 2

\* str.lower, on the letters that the file names here are made of
Lower(s) ==
  [k \in 1..Len(s) |->
     IF s[k] = "P" THEN "p" ELSE IF s[k] = "D" THEN "d"
     ELSE IF s[k] = "F" THEN "f" ELSE s[k]]

\* allowed_file of notegen.py
allowed_file(filename) ==
  /\ \E k \in 1..Len(filename) : filename[k] = "."
  /\ Lower(SubSeq(filename, rfind(filename, ".") + 2, Len(filename))) = <<"p", "d", "f">>

\* werkzeug's secure_filename, on names made of letters, dots and spaces
secure_filename(filename) ==
  [k \in 1..Len(filename) |-> IF filename[k] = " " THEN "_" ELSE filename[k]]

\* an uploaded file: its name, whether PdfReader can read it, and the text
\* of its pages
Uploaded(filename, readable, pages) ==
  [filename |-> filename, readable |-> readable, pages |-> pages]

\* a PDF with text, a scanned PDF (its one page has no text), a file that
\* is no PDF under a pdf name, and a text file
UploadPool ==
  { Uploaded(<<"a", ".", "p", "d", "f">>, TRUE, << <<"t">> >>),
    Uploaded(<<"b", " ", "c", ".", "P", "D", "F">>, TRUE, << <<>> >>),
    Uploaded(<<"d", ".", "p", "d", "f">>, FALSE, <<>>),
    Uploaded(<<"e", ".", "t", "x", "t">>, TRUE, <<>>) }

\* the requests: without the field files[], or with some files in it
UploadRequests ==
  {[field |-> FALSE, files |-> <<>>]}
  \cup {[field |-> TRUE, files |-> f] :
          f \in UNION {[1..n -> UploadPool] : n \in 1..MaxFiles}}

RECURSIVE FileText(_)
\* lines 40-42: the text of every page, each followed by a newline
FileText(pages) ==
  IF pages = <<>> THEN <<>>
  ELSE Head(pages) \o <<"\n">> \o FileText(Tail(pages))

RECURSIVE AllText(_)
\* lines 37-46: the text of the saved files that can be read, each followed
\* by two newlines
AllText(files) ==
  IF files = <<>> THEN <<>>
  ELSE (IF Head(files).readable
        THEN FileText(Head(files).pages) \o <<"\n", "\n">>
        ELSE <<>>)
       \o AllText(Tail(files))

\* what processor.process_content(all_text) may do
ProcessOutcomes == {"topics", "no topics", "RuntimeError"}

\* the handler has answered nothing yet; disk is the upload folder
UploadIdle(disk) ==
  [pc |-> "idle", files |-> <<>>, k |-> 1, saved_files |-> <<>>, saved |-> <<>>,
   all_text |-> <<>>, disk |-> disk, status |-> 0, error |-> ""]

Respond(u, status, error) == [u EXCEPT !.pc = "done", !.status = status, !.error = error]

InitUpload ==
  /\ upload = UploadIdle({})
  /\ store = NoDir
  /\ apiKey = FALSE
  /\ ing = IdleIng
  /\ last = NoCall
  /\ lastOK = <<>>
  /\ procs = [p \in Procs |-> IdleProc]
  /\ chk = NoChk
  /\ js = NoJs
  /\ notes = NoNotes
  /\ video = NoVideo

\* lines 17-27: a request comes in; without the field files[] it is answered
\* at once
UploadBegin(req) ==
  /\ upload.pc \in {"idle", "done"}
  /\ upload' =
       IF ~req.field
       THEN Respond(UploadIdle(upload.disk), 400, "No files selected")
       ELSE [UploadIdle(upload.disk) EXCEPT !.pc = "save", !.files = req.files]
  /\ UNCHANGED <<store, apiKey, ing, last, lastOK, procs, chk, js, notes, video>>

\* lines 29-34, 79-81: one turn of the loop over the files; file.save may
\* raise, which ends the request with the response 500.  saved holds the
\* files behind saved_files and is not in the code
UploadSave(ok) ==
  /\ upload.pc = "save"
  /\ upload.k <= Len(upload.files)
  /\ LET file == upload.files[upload.k]
         path == secure_filename(file.filename)
     IN upload' =
          IF ~allowed_file(file.filename)
          THEN [upload EXCEPT !.k = @ + 1]
          ELSE IF ~ok
          THEN Respond(upload, 500, "save failed")
          ELSE [upload EXCEPT !.k = @ + 1,
                              !.disk = @ \cup {path},
                              !.saved_files = Append(@, path),
                              !.saved = Append(@, file)]
  /\ UNCHANGED <<store, apiKey, ing, last, lastOK, procs, chk, js, notes, video>>

\* lines 37-49: the text of the saved files; a file that cannot be read is
\* skipped; without any text the response is 400
UploadExtract ==
  /\ upload.pc = "save"
  /\ upload.k > Len(upload.files)
  /\ LET all_text == AllText(upload.saved)
     IN upload' =
          IF Blank(all_text)
          THEN Respond([upload EXCEPT !.all_text = all_text], 400,
                       "No text could be extracted from the uploaded files")
          ELSE [upload EXCEPT !.pc = "process", !.all_text = all_text]
  /\ UNCHANGED <<store, apiKey, ing, last, lastOK, procs, chk, js, notes, video>>

\* lines 67-71: os.remove of every saved path; a removal that raises is
\* passed over
Cleanup(disk, saved_files, failing) ==
  disk \ {saved_files[k] : k \in {j \in 1..Len(saved_files) : saved_files[j] \notin failing}}

\* lines 52-77, 79-81: process_content; its exception gives the response
\* 500, no topic the response 400; otherwise the PDFs of the topics are
\* made in the notes folder, the saved files are removed and the response
\* is 200
UploadProcess(outcome, failing) ==
  /\ upload.pc = "process"
  /\ upload' =
       IF outcome = "RuntimeError"
       THEN Respond(upload, 500, "Processing error")
       ELSE IF outcome = "no topics"
       THEN Respond(upload, 400, "No topics could be generated from the content")
       ELSE Respond([upload EXCEPT !.disk = Cleanup(@, upload.saved_files, failing)], 200, "")
  /\ UNCHANGED <<store, apiKey, ing, last, lastOK, procs, chk, js, notes, video>>

NextUpload ==
  \/ \E req \in UploadRequests : UploadBegin(req)
  \/ \E ok \in BOOLEAN : UploadSave(ok)
  \/ UploadExtract
  \/ \E outcome \in ProcessOutcomes :
       \E failing \in SUBSET {upload.saved_files[k] : k \in 1..Len(upload.saved_files)} :
         UploadProcess(outcome, failing)

SpecUpload == InitUpload /\ [][NextUpload]_vars

\* the paths saved by the request that are still in the upload folder
LeftBehind ==
  {upload.saved_files[k] : k \in 1..Len(upload.saved_files)} \cap upload.disk

\* C23 as stated: on every return path of the /upload handler (success, the
\* 400 responses for no extractable text or no topics, the 500 response
\* after an exception), every file that the handler saved into the upload
\* folder during the request has been removed when the response is
\* returned.
UploadsRemovedOnEveryReturn ==
  upload.pc = "done" => LeftBehind = {}

\* what the handler does ensure: nothing is saved by a request without the
\* field files[], and a saved file outlives the response 200 only if its
\* removal failed, in which case the response is the same
UploadsRemovedOnSuccess ==
  /\ upload.pc = "done" /\ upload.error = "No files selected" =>
       upload.saved_files = <<>>
  /\ upload.pc = "done" /\ upload.status = 200 =>
       upload.saved_files # <<>>

\* a scanned PDF was uploaded: the response is 400 and the file is still in
\* the upload folder
ScannedPdfLeftBehind ==
  /\ upload.pc = "done"
  /\ upload.status = 400
  /\ upload.saved_files = << <<"b", "_", "c", ".", "P", "D", "F">> >>
  /\ LeftBehind # {}

-----------------------------------------------------------------------------
(* The routes of app/video2pdf/routes.py: index converts an uploaded video *)
(* into a PDF of its slides and sends it, download_pdf looks a conversion  *)
(* up in pdf_cache.  The video processor and the slide processor are the   *)
(* environment: a conversion may raise, give no PDF, name a PDF that is    *)
(* not there, or write one.                                                *)

\* successful conversions that are kept count of
MaxUploads == 3

\* the names of the uploaded videos
VideoNames == {"a.mp4", "b.mp4", "c.mp4"}

\* the PDF that slide_processor.process_slide_images() writes for a video
PdfOf(name) == <<name, "processed_slides/output.pdf">>

\* the requests to index: GET, POST without a video, POST with a video
IndexRequests ==
  {[method |-> "GET", video |-> ""], [method |-> "POST", video |-> ""]}
  \cup {[method |-> "POST", video |-> n] : n \in VideoNames}

\* what the conversion of lines 27-50 may come to
Conversions == {"save raises", "raises", "no pdf", "missing", "pdf"}

\* the identifiers asked of /download/<conversion_id>
ConversionIds == VideoNames \cup {"output.pdf", "1"}

Response(route, status, body) == [route |-> route, status |-> status, body |-> body]

\* line 10: pdf_cache = {}; videos are the videos in the upload folder;
\* converted lists the PDFs that index has sent and is not in the code
InitVideo ==
  /\ video = [pc |-> "serving", pdf_cache |-> <<>>, videos |-> {}, converted |-> <<>>,
              resp |-> Response("", 0, <<>>)]
  /\ store = NoDir
  /\ apiKey = FALSE
  /\ ing = IdleIng
  /\ last = NoCall
  /\ lastOK = <<>>
  /\ procs = [p \in Procs |-> IdleProc]
  /\ chk = NoChk
  /\ js = NoJs
  /\ notes = NoNotes
  /\ upload = NoUpload

\* lines 20-71: index
VideoIndex(req, conversion) ==
  /\ video.pc = "serving"
  /\ Len(video.converted) < MaxUploads
  /\ video' =
       IF req.method # "POST" \/ req.video = ""
       THEN [video EXCEPT !.resp = Response("index", 200, <<"video2pdf.html">>)]
       ELSE IF conversion = "save raises"
       THEN [video EXCEPT !.resp = Response("index", 500, <<"Error processing video">>)]
       ELSE IF conversion \in {"raises", "no pdf"}
       THEN [video EXCEPT !.resp = Response("index", 500, <<"Error processing video">>),
                          !.videos = @ \cup {req.video}]
       ELSE IF conversion = "missing"
       THEN [video EXCEPT
               !.resp = Response("index", 500, <<"PDF generation failed - file not found">>),
               !.videos = @ \cup {req.video}]
       ELSE [video EXCEPT !.resp = Response("index", 200, PdfOf(req.video)),
                          !.videos = @ \cup {req.video},
                          !.converted = Append(@, PdfOf(req.video))]
  /\ UNCHANGED <<store, apiKey, ing, last, lastOK, procs, chk, js, notes, upload>>

\* lines 73-85: download_pdf
VideoDownload(conversion_id) ==
  /\ video.pc = "serving"
  /\ video' =
       IF conversion_id \in DOMAIN video.pdf_cache
       THEN [video EXCEPT
               !.resp = Response("download", 200, video.pdf_cache[conversion_id].path)]
       ELSE [video EXCEPT !.resp = Response("download", 404, <<"PDF not found">>)]
  /\ UNCHANGED <<store, apiKey, ing, last, lastOK, procs, chk, js, notes, upload>>

NextVideo ==
  \/ \E req \in IndexRequests, conversion \in Conversions : VideoIndex(req, conversion)
  \/ \E conversion_id \in ConversionIds : VideoDownload(conversion_id)

SpecVideo == InitVideo /\ [][NextVideo]_vars

\* the application is serving the video2pdf routes
VideoServing == video.pc = "serving"

\* C24 as stated: after any sequence of uploads through index, every
\* successful conversion is recorded in pdf_cache under an identifier for
\* which download_pdf returns that PDF and not the 404 "PDF not found".
ConversionsAreCached ==
  VideoServing =>
    /\ \A k \in 1..Len(video.converted) :
         \E id \in DOMAIN video.pdf_cache :
           video.pdf_cache[id].path = video.converted[k]
    /\ video.resp.route = "download" /\ video.converted # <<>> =>
         \E id \in DOMAIN video.pdf_cache : video.resp.status # 404

\* what the routes do: pdf_cache stays empty and every download is answered
\* 404, whatever was converted
DownloadAlwaysNotFound ==
  VideoServing =>
    /\ video.pdf_cache = <<>>
    /\ video.resp.route = "download" => video.resp.status = 404

\* a video was converted and its PDF sent, and the download asked for under
\* the name of the video was answered 404
ConvertedButNotFound ==
  /\ VideoServing
  /\ video.converted = <<PdfOf("a.mp4")>>
  /\ video.resp = Response("download", 404, <<"PDF not found">>)

====
